---- MODULE Spec2Model ----
(***************************************************************************)
(* A model of main.py of hti-cnn: the training driver main(), the part of  *)
(* train() that sets the learning rate, and validate()'s aggregation and   *)
(* AUC computation.                                                        *)
(*                                                                         *)
(* Spec         the epoch loop of main() with its try/finally guard.       *)
(* SpecValidate one call of validate() on a bounded data set.              *)
(***************************************************************************)
EXTENDS Integers, Sequences, FiniteSets, TLC

\* ------------------------------------------------------------------ bounds
MaxEnsembleSize == 2
MaxCycleLength == 2
MaxEpochs == 2
MaxPerf == 2
NumBatches == 2

\* ------------------------------------------------------- values and helpers
\* A Python local that may be unbound is a sequence: <<>> unbound, <<v>> bound.
Unbound == <<>>
Bound(v) == <<v>>
IsBound(x) == Len(x) = 1
Val(x) == x[1]

Max(a, b) == IF a > b THEN a ELSE b

EnsembleTypes == {"none", "deep_ensemble", "snapshot_ensemble", "other"}
LrValues == {60, 100}
\* session.summaries: one writer per split
Summaries(hv) == IF hv THEN <<"train", "val">> ELSE <<"train">>

VARIABLES
  \* ---- inputs of main(), read from the session (lines 22-30)
  ensemble_type,      \* "none": session.ensemble_properties is empty
  ensemble_size,
  cycle_length,
  initial_lr,
  config_epochs,      \* config.training.epochs
  config_evaluate,    \* config.evaluate == "val"
  start_epoch,        \* session.epoch
  restored_best,      \* session.best_performance
  has_val,            \* "val" in datasets
  \* ---- locals of main()
  pc,
  total_epochs,
  epoch,
  m,
  performance,
  best_performance,
  exc,                \* the exception propagating, "none" if none
  exc_at,             \* the step that raised the first exception
  exc_epoch,          \* the epoch the loop was executing when it was raised
  \* ---- train()
  lr,
  batch_i,
  \* ---- what the session and the summaries have been asked to do
  calls,              \* the calls of the current loop iteration, in order
  trained,            \* epochs train() was called with, in order
  last_ckpt,          \* arguments of the last save_checkpoint(performance, is_best)
  ens_saved,          \* save_ensemble_checkpoint calls: [epoch, m, since]
  ens_passed,         \* epochs whose ensemble block (lines 92-102) has run
  reinit_count,
  since_init,         \* train() calls since the model was last (re-)initialised
  abort_saved,        \* save_checkpoint(filename="user_abort.pth.tar", ...) called
  closed,             \* summaries exported and closed, in order
  max_seen,           \* max of restored_best and every performance validated
  prev_max,           \* max_seen before the last validation
  \* ---- validate()
  v_pc,
  loader,             \* the samples of loader.dataset, in the order delivered
  n_tasks,            \* loader.dataset.num_classes
  batchsize,          \* loader.batch_size
  batch,              \* i of "for i, batch in enumerate(loader)"
  predictions,
  targets,
  sample_keys,
  ids,                \* sample_keys after the aggregation (groups.index)
  class_aucs,
  mean_auc

main_vars == <<ensemble_type, ensemble_size, cycle_length, initial_lr, config_epochs,
               config_evaluate, start_epoch, restored_best, has_val, pc, total_epochs,
               epoch, m, performance, best_performance, exc, exc_at, exc_epoch, lr,
               batch_i, calls, trained, last_ckpt, ens_saved, ens_passed, reinit_count,
               since_init, abort_saved, closed, max_seen, prev_max>>
validate_vars == <<v_pc, loader, n_tasks, batchsize, batch, predictions, targets,
                   sample_keys, ids, class_aucs, mean_auc>>
vars == <<main_vars, validate_vars>>

inputs == <<ensemble_type, ensemble_size, cycle_length, initial_lr, config_epochs,
            config_evaluate, start_epoch, restored_best, has_val>>
history == <<trained, last_ckpt, ens_saved, ens_passed, reinit_count, since_init,
             abort_saved, closed, max_seen, prev_max>>

\* ------------------------------------------------------------ pure parts
IsEnsemble(t) == t \in {"deep_ensemble", "snapshot_ensemble"}

\* line 65
TotalEpochs(size, cycle) == size * cycle

MemberIndexFromZero(start, cycle) == 0

\* line 71: int(start_epoch / cycle_length), a float division truncated
MemberIndex(start, cycle) == start \div cycle

\* line 96
Checkpoints(cycle, size) == {cycle * cp : cp \in 1..size}

IsBestOrEqual(perf, best) == perf >= best

\* line 86
IsBest(perf, best) == perf > best

NeedsReinitAnyEnsemble(t) == IsEnsemble(t)

\* line 105
NeedsReinit(t) == t \in {"deep_ensemble"}

\* line 110
AbortNeeded(e, total) == (e + 1) # total

LrEpochOffByOne(e) == e + 1

\* line 135: the epoch handed to adjust_cyclic_annealing_lr
LrEpoch(e) == e

\* session.adjust_cyclic_annealing_lr: cosine annealing restarted every cycle,
\* lr = initial_lr / 2 * (cos(pi * (epoch mod cycle) / cycle) + 1), the cosine by
\* Bhaskara's rational approximation cos(x) ~ (pi^2 - 4x^2) / (pi^2 + x^2).
AdjustCyclicAnnealingLr(e, lr0, cycle) ==
  LET t == e % cycle
      u == cycle - t
  IN IF 2 * t <= cycle
       THEN (lr0 * (2 * cycle * cycle - 3 * t * t)) \div (2 * (cycle * cycle + t * t))
       ELSE (lr0 * 5 * u * u) \div (2 * (cycle * cycle + u * u))

\* ------------------------------------------------------------------ Init
NoCkpt == [performance |-> -1, is_best |-> FALSE]

MainInit ==
  /\ ensemble_type \in EnsembleTypes
  /\ IF ensemble_type = "none"
       THEN /\ ensemble_size = 0
            /\ cycle_length = 0
            /\ config_epochs \in 0..MaxEpochs
       ELSE /\ ensemble_size \in 1..MaxEnsembleSize
            /\ cycle_length \in 1..MaxCycleLength
            /\ config_epochs = 0
  /\ IF ensemble_type = "snapshot_ensemble"
       THEN initial_lr \in LrValues
       ELSE initial_lr = 0
  /\ config_evaluate \in BOOLEAN
  /\ start_epoch \in 0..(IF ensemble_type = "none" THEN MaxEpochs
                         ELSE MaxEnsembleSize * MaxCycleLength)
  /\ restored_best \in 0..MaxPerf
  /\ has_val \in BOOLEAN
  /\ pc = "start"
  /\ total_epochs = Unbound
  /\ epoch = Unbound
  /\ m = Unbound
  /\ performance = Unbound
  /\ best_performance = restored_best
  /\ exc = "none"
  /\ exc_at = "none"
  /\ exc_epoch = Unbound
  /\ lr = 0
  /\ batch_i = 0
  /\ calls = <<>>
  /\ trained = <<>>
  /\ last_ckpt = NoCkpt
  /\ ens_saved = <<>>
  /\ ens_passed = {}
  /\ reinit_count = 0
  /\ since_init = 0
  /\ abort_saved = FALSE
  /\ closed = <<>>
  /\ max_seen = restored_best
  /\ prev_max = restored_best

\* validate() not running
ValidateIdle ==
  /\ v_pc = "idle"
  /\ loader = <<>>
  /\ n_tasks = 0
  /\ batchsize = 0
  /\ batch = 0
  /\ predictions = <<>>
  /\ targets = <<>>
  /\ sample_keys = <<>>
  /\ ids = <<>>
  /\ class_aucs = <<>>
  /\ mean_auc = <<>>

Init == MainInit /\ ValidateIdle

\* An exception raised at step `at`: inside the try block control goes to the
\* finally clause, with the exception pending.
Raise(kind, at) ==
  /\ exc' = kind
  /\ exc_at' = at
  /\ exc_epoch' = epoch
  /\ pc' = "finally"

NoRaise == UNCHANGED <<exc, exc_at, exc_epoch>>

\* ------------------------------------------------- main(): before the try
\* lines 51-52: validate(loader_val, "val", model, 0, None, None) passes six of
\* validate()'s seven required parameters (or reads the unbound loader_val).
EvaluateOnly ==
  /\ pc = "start"
  /\ \/ /\ config_evaluate
        /\ exc' = IF has_val THEN "TypeError" ELSE "UnboundLocalError"
        /\ exc_at' = "evaluate"
        /\ pc' = "raised"
        /\ UNCHANGED exc_epoch
     \/ /\ ~config_evaluate
        /\ pc' = "initial_eval"
        /\ NoRaise
  /\ UNCHANGED <<inputs, total_epochs, epoch, m, performance, best_performance,
                 lr, batch_i, calls, history, validate_vars>>

\* lines 55-57: the initial evaluation, its result dropped
InitialEvaluation ==
  /\ pc = "initial_eval"
  /\ \/ /\ start_epoch = 0 /\ has_val
        /\ calls' = Append(calls, "validate")
        /\ \/ pc' = "try" /\ NoRaise
           \/ /\ exc' = "Exception"
              /\ exc_at' = "initial_eval"
              /\ pc' = "raised"
              /\ UNCHANGED exc_epoch
     \/ /\ ~(start_epoch = 0 /\ has_val)
        /\ pc' = "try"
        /\ NoRaise
        /\ UNCHANGED calls
  /\ UNCHANGED <<inputs, total_epochs, epoch, m, performance, best_performance,
                 lr, batch_i, history, validate_vars>>

\* ------------------------------------------------------ main(): the try block
\* lines 61-75
Setup ==
  /\ pc = "try"
  /\ \/ /\ ensemble_type = "none"
        /\ total_epochs' = Bound(config_epochs)
        /\ pc' = "for"
        /\ NoRaise
        /\ UNCHANGED m
     \/ /\ IsEnsemble(ensemble_type)
        /\ total_epochs' = Bound(TotalEpochs(ensemble_size, cycle_length))
        /\ m' = Bound(MemberIndex(start_epoch, cycle_length))
        /\ pc' = "for"
        /\ NoRaise
     \/ /\ ensemble_type # "none" /\ ~IsEnsemble(ensemble_type)
        /\ pc' = "for"
        /\ NoRaise
        /\ UNCHANGED <<total_epochs, m>>
     \/ /\ Raise("Exception", "setup")
        /\ UNCHANGED <<total_epochs, m>>
  /\ UNCHANGED <<inputs, epoch, performance, best_performance, lr, batch_i, calls,
                 history, validate_vars>>

\* line 77: for epoch in range(start_epoch, total_epochs)
ForEpoch ==
  /\ pc = "for"
  /\ \/ /\ ~IsBound(total_epochs)
        /\ Raise("UnboundLocalError", "for")
        /\ UNCHANGED <<epoch, calls>>
     \/ /\ IsBound(total_epochs)
        /\ LET next == IF IsBound(epoch) THEN Val(epoch) + 1 ELSE start_epoch
           IN IF next < Val(total_epochs)
                THEN /\ epoch' = Bound(next)
                     /\ calls' = <<>>
                     /\ pc' = "train"
                ELSE /\ pc' = "finally"
                     /\ UNCHANGED <<epoch, calls>>
        /\ NoRaise
  /\ UNCHANGED <<inputs, total_epochs, m, performance, best_performance, lr, batch_i,
                 history, validate_vars>>

\* line 79 and train(), lines 121-145: the learning rate of the epoch
TrainEnter ==
  /\ pc = "train"
  /\ trained' = Append(trained, Val(epoch))
  /\ since_init' = since_init + 1
  /\ \/ /\ ensemble_type = "snapshot_ensemble"
        /\ lr' = AdjustCyclicAnnealingLr(LrEpoch(Val(epoch)), initial_lr, cycle_length)
        /\ calls' = calls \o <<"train", "adjust_cyclic_annealing_lr">>
     \/ /\ ensemble_type # "snapshot_ensemble"
        /\ calls' = Append(calls, "train")
        /\ UNCHANGED lr
  /\ batch_i' = 0
  /\ pc' = "batches"
  /\ NoRaise
  /\ UNCHANGED <<inputs, total_epochs, epoch, m, performance, best_performance,
                 last_ckpt, ens_saved, ens_passed, reinit_count, abort_saved, closed,
                 max_seen, prev_max, validate_vars>>

\* train(), lines 148-192: one batch
TrainStep ==
  /\ pc = "batches"
  /\ batch_i < NumBatches
  /\ calls' = Append(calls, "train_step")
  /\ \/ /\ batch_i' = batch_i + 1
        /\ pc' = IF batch_i + 1 < NumBatches THEN "batches"
                 ELSE IF has_val THEN "validate" ELSE "ensemble"
        /\ NoRaise
     \/ /\ Raise("Exception", "train")
        /\ UNCHANGED batch_i
  /\ UNCHANGED <<inputs, total_epochs, epoch, m, performance, best_performance, lr,
                 history, validate_vars>>

\* line 83
Validate ==
  /\ pc = "validate"
  /\ calls' = Append(calls, "validate")
  /\ \/ \E p \in 0..MaxPerf :
          /\ performance' = Bound(p)
          /\ prev_max' = max_seen
          /\ max_seen' = Max(max_seen, p)
          /\ pc' = "checkpoint"
          /\ NoRaise
     \/ /\ Raise("Exception", "validate")
        /\ UNCHANGED <<performance, prev_max, max_seen>>
  /\ UNCHANGED <<inputs, total_epochs, epoch, m, best_performance, lr, batch_i,
                 trained, last_ckpt, ens_saved, ens_passed, reinit_count, since_init,
                 abort_saved, closed, validate_vars>>

\* lines 86-88
Checkpoint ==
  /\ pc = "checkpoint"
  /\ LET is_best == IsBest(Val(performance), best_performance)
     IN last_ckpt' = [performance |-> Val(performance), is_best |-> is_best]
  /\ best_performance' = Max(Val(performance), best_performance)
  /\ calls' = Append(calls, "save_checkpoint")
  /\ \/ pc' = "ensemble" /\ NoRaise
     \/ Raise("Exception", "checkpoint")
  /\ UNCHANGED <<inputs, total_epochs, epoch, m, performance, lr, batch_i, trained,
                 ens_saved, ens_passed, reinit_count, since_init, abort_saved, closed,
                 max_seen, prev_max, validate_vars>>

\* lines 92-102
EnsembleCheckpoint ==
  /\ pc = "ensemble"
  /\ \/ /\ ~IsEnsemble(ensemble_type)
        /\ pc' = "for"
        /\ NoRaise
        /\ UNCHANGED <<m, calls, ens_saved, ens_passed>>
     \/ /\ IsEnsemble(ensemble_type)
        /\ (Val(epoch) + 1) \notin Checkpoints(cycle_length, ensemble_size)
        /\ pc' = "for"
        /\ ens_passed' = ens_passed \cup {Val(epoch)}
        /\ NoRaise
        /\ UNCHANGED <<m, calls, ens_saved>>
     \/ /\ IsEnsemble(ensemble_type)
        /\ (Val(epoch) + 1) \in Checkpoints(cycle_length, ensemble_size)
        /\ ens_passed' = ens_passed \cup {Val(epoch)}
        /\ \/ /\ ~IsBound(performance)
              /\ Raise("UnboundLocalError", "ensemble")
              /\ UNCHANGED <<m, calls, ens_saved>>
           \/ /\ IsBound(performance)
              /\ calls' = Append(calls, "save_ensemble_checkpoint")
              /\ ens_saved' = Append(ens_saved, [epoch |-> Val(epoch), m |-> Val(m),
                                                 since |-> since_init,
                                                 reinits |-> reinit_count])
              /\ \/ /\ m' = Bound(Val(m) + 1)
                    /\ pc' = IF NeedsReinit(ensemble_type) THEN "reinit" ELSE "for"
                    /\ NoRaise
                 \/ /\ Raise("Exception", "ensemble")
                    /\ UNCHANGED m
  /\ UNCHANGED <<inputs, total_epochs, epoch, performance, best_performance, lr,
                 batch_i, trained, last_ckpt, reinit_count, since_init, abort_saved,
                 closed, max_seen, prev_max, validate_vars>>

\* lines 105-107
Reinitialise ==
  /\ pc = "reinit"
  /\ calls' = Append(calls, "re_initialise_model")
  /\ reinit_count' = reinit_count + 1
  /\ since_init' = 0
  /\ \/ pc' = "for" /\ NoRaise
     \/ Raise("Exception", "reinit")
  /\ UNCHANGED <<inputs, total_epochs, epoch, m, performance, best_performance, lr,
                 batch_i, trained, last_ckpt, ens_saved, ens_passed, abort_saved,
                 closed, max_seen, prev_max, validate_vars>>

\* ---------------------------------------------------- main(): the finally clause
\* lines 110-112
Finally ==
  /\ pc = "finally"
  /\ \/ /\ ~IsBound(epoch)
        /\ exc' = "UnboundLocalError"
        /\ exc_at' = IF exc_at = "none" THEN "finally" ELSE exc_at
        /\ pc' = "raised"
        /\ UNCHANGED <<exc_epoch, abort_saved>>
     \/ /\ IsBound(epoch)
        /\ ~AbortNeeded(Val(epoch), Val(total_epochs))
        /\ pc' = "close"
        /\ NoRaise
        /\ UNCHANGED abort_saved
     \/ /\ IsBound(epoch)
        /\ AbortNeeded(Val(epoch), Val(total_epochs))
        /\ abort_saved' = TRUE
        /\ \/ pc' = "close" /\ NoRaise
           \/ /\ exc' = "Exception"
              /\ exc_at' = IF exc_at = "none" THEN "abort_save" ELSE exc_at
              /\ pc' = "raised"
              /\ UNCHANGED exc_epoch
  /\ UNCHANGED <<inputs, total_epochs, epoch, m, performance, best_performance, lr,
                 batch_i, calls, trained, last_ckpt, ens_saved, ens_passed,
                 reinit_count, since_init, closed, max_seen, prev_max, validate_vars>>

\* lines 115-117: one summary writer exported and closed
CloseSummary ==
  /\ pc = "close"
  /\ Len(closed) < Len(Summaries(has_val))
  /\ \/ /\ closed' = Append(closed, Summaries(has_val)[Len(closed) + 1])
        /\ NoRaise
        /\ UNCHANGED pc
     \/ /\ exc' = "Exception"
        /\ exc_at' = IF exc_at = "none" THEN "close" ELSE exc_at
        /\ pc' = "raised"
        /\ UNCHANGED <<exc_epoch, closed>>
  /\ UNCHANGED <<inputs, total_epochs, epoch, m, performance, best_performance, lr,
                 batch_i, calls, trained, last_ckpt, ens_saved, ens_passed,
                 reinit_count, since_init, abort_saved, max_seen, prev_max, validate_vars>>

\* line 118 and the end of the try statement: a pending exception is re-raised
Leave ==
  /\ pc = "close"
  /\ Len(closed) = Len(Summaries(has_val))
  /\ pc' = IF exc = "none" THEN "returned" ELSE "raised"
  /\ UNCHANGED <<inputs, total_epochs, epoch, m, performance, best_performance, exc,
                 exc_at, exc_epoch, lr, batch_i, calls, history, validate_vars>>

Next ==
  \/ EvaluateOnly
  \/ InitialEvaluation
  \/ Setup
  \/ ForEpoch
  \/ TrainEnter
  \/ TrainStep
  \/ Validate
  \/ Checkpoint
  \/ EnsembleCheckpoint
  \/ Reinitialise
  \/ Finally
  \/ CloseSummary
  \/ Leave

Spec == Init /\ [][Next]_vars

\* ------------------------------------------------ properties of main()
Count(seq, x) == Cardinality({i \in DOMAIN seq : seq[i] = x})
Positions(seq, x) == {i \in DOMAIN seq : seq[i] = x}
IsBoundary(e) == \E k \in 1..ensemble_size : e + 1 = k * cycle_length
LoopSteps == {"train", "validate", "checkpoint", "ensemble", "reinit"}
LeftMain == pc \in {"returned", "raised"}
EnteredTry == pc \notin {"start", "initial_eval", "try"}
                /\ exc_at \notin {"evaluate", "initial_eval"}

\* C1: whenever an exception raised by a step of the epoch loop (train, validation,
\* checkpoint save, ensemble checkpoint save, re-initialisation) has passed the
\* finally clause's abort check or left main(), the abort checkpoint
\* user_abort.pth.tar has been saved.
C1_AbortSavedOnLoopException ==
  (pc \in {"close", "raised"} /\ exc_at \in LoopSteps) => abort_saved

\* C2: whenever main() has left (returned or raised) after entering the try
\* block, every summary writer has been exported and closed; a failure of the
\* export itself is not counted.
C2_SummariesClosedOnEveryExit ==
  (LeftMain /\ EnteredTry /\ exc_at # "close") => closed = Summaries(has_val)

\* C3: in a deep or snapshot ensemble run, an epoch whose ensemble block has run
\* has a save_ensemble_checkpoint call exactly if epoch + 1 is k * cycle_length
\* for some k in 1..ensemble_size, with or without a validation split; and a run
\* from epoch 0 that returns has saved ensemble_size ensemble checkpoints.
C3_EnsembleSavedExactlyAtBoundaries ==
  IsEnsemble(ensemble_type) =>
    /\ \A e \in ens_passed :
         (\E i \in DOMAIN ens_saved : ens_saved[i].epoch = e) <=> IsBoundary(e)
    /\ (pc = "returned" /\ start_epoch = 0) => Len(ens_saved) = ensemble_size

\* C4: once lines 61-75 have run without an exception, total_epochs is
\* ensemble_size * cycle_length whenever ensemble properties are set and
\* config.training.epochs otherwise; and a run that returns has called train()
\* once for each epoch start_epoch..total_epochs-1, in ascending order.
C4_TotalEpochsAndTrainOrder ==
  /\ (EnteredTry /\ exc_at # "setup") =>
       total_epochs = Bound(IF ensemble_type = "none" THEN config_epochs
                            ELSE ensemble_size * cycle_length)
  /\ (pc = "returned" /\ IsBound(total_epochs)) =>
       /\ Len(trained) = Max(Val(total_epochs) - start_epoch, 0)
       /\ \A i \in DOMAIN trained : trained[i] = start_epoch + i - 1

\* C7: in a snapshot ensemble run, once the batches of epoch e are being trained,
\* adjust_cyclic_annealing_lr has been called exactly once in this epoch, before
\* the first train_step, and if e starts a cycle the learning rate is initial_lr.
C7_CyclicLrRestartsAtCycleStart ==
  (ensemble_type = "snapshot_ensemble" /\ Count(calls, "train") = 1) =>
    /\ Count(calls, "adjust_cyclic_annealing_lr") = 1
    /\ \A i \in Positions(calls, "adjust_cyclic_annealing_lr") :
         \A j \in Positions(calls, "train_step") : i < j
    /\ (Val(epoch) % cycle_length = 0) => lr = initial_lr

C7_Witness ==
  /\ ensemble_type = "snapshot_ensemble"
  /\ cycle_length >= 2
  /\ IsBound(epoch) /\ Val(epoch) > 0 /\ Val(epoch) % cycle_length = 0
  /\ pc = "batches" /\ batch_i = 1
  /\ Len(trained) >= 2
  /\ lr = initial_lr

\* what lines 81-88 keep true of the validation, the checkpoint and the best
\* performance
BestCheckpointInv ==
  has_val =>
    /\ (pc \in {"ensemble", "reinit", "for"} /\ IsBound(epoch) /\ exc = "none") =>
         /\ Count(calls, "validate") = 1
         /\ Count(calls, "save_checkpoint") = 1
         /\ \A i \in Positions(calls, "validate") :
              /\ \A j \in Positions(calls, "train_step") : j < i
              /\ \A j \in Positions(calls, "save_checkpoint") : j = i + 1
         /\ last_ckpt.performance = Val(performance)
         /\ last_ckpt.is_best <=> (Val(performance) > prev_max)
    /\ pc # "checkpoint" => best_performance = max_seen
    /\ best_performance >= restored_best

\* C8: with a validation split, when an epoch's checkpoint has been saved the
\* epoch has had exactly one validation and then exactly one save_checkpoint,
\* both after training; is_best is true exactly if the performance is strictly
\* greater than the maximum of the restored best and all earlier performances;
\* best_performance is the maximum of the restored value and all performances
\* seen, also after a re-initialisation, and it never decreases.
C8_BestCheckpoint ==
  [](BestCheckpointInv) /\ [][best_performance' >= best_performance]_vars

C8_Witness ==
  /\ has_val
  /\ pc = "for"
  /\ reinit_count > 0
  /\ Len(trained) >= 2
  /\ ~last_ckpt.is_best
  /\ Val(performance) = best_performance
  /\ best_performance > restored_best

\* C9: every save_ensemble_checkpoint at the boundary epoch + 1 = k * cycle_length
\* gets member index k - 1; the indices saved are consecutive and increasing, at
\* most ensemble_size - 1, and the first one saved is the index of the cycle that
\* contains start_epoch.
C9_MemberIndexIsCycleIndex ==
  IsEnsemble(ensemble_type) =>
    \A i \in DOMAIN ens_saved :
      /\ \E k \in 1..ensemble_size :
           /\ ens_saved[i].epoch + 1 = k * cycle_length
           /\ ens_saved[i].m = k - 1
      /\ ens_saved[i].m <= ensemble_size - 1
      /\ i > 1 => ens_saved[i].m = ens_saved[i - 1].m + 1
      /\ i = 1 => /\ cycle_length * ens_saved[i].m <= start_epoch
                  /\ start_epoch < cycle_length * (ens_saved[i].m + 1)

C9_Witness ==
  /\ IsEnsemble(ensemble_type)
  /\ start_epoch % cycle_length # 0
  /\ Len(ens_saved) >= 1
  /\ ens_saved[1].m >= 1

\* C10: re_initialise_model is called only in a deep ensemble run, at a cycle
\* boundary, right after that epoch's save_ensemble_checkpoint, which follows the
\* epoch's save_checkpoint; every member saved without an exception is followed
\* by one re-initialisation before the next train(); and a member saved after a
\* re-initialisation has been trained for exactly cycle_length epochs since it
\* (the first member of the run: for the epochs of this run).
C10_ReinitAfterEachDeepMember ==
  /\ \A i \in Positions(calls, "re_initialise_model") :
       /\ ensemble_type = "deep_ensemble"
       /\ IsBoundary(Val(epoch))
       /\ i = Len(calls)
       /\ i > 2
       /\ calls[i - 1] = "save_ensemble_checkpoint"
       /\ calls[i - 2] = "save_checkpoint"
  /\ ensemble_type # "deep_ensemble" => reinit_count = 0
  /\ (ensemble_type = "deep_ensemble" /\ exc_at # "ensemble") =>
       reinit_count = Len(ens_saved) - (IF pc = "reinit" THEN 1 ELSE 0)
  /\ (ensemble_type = "deep_ensemble" /\ pc = "train" /\ Len(ens_saved) > 0) =>
       (since_init = Val(epoch) % cycle_length)
  /\ ensemble_type = "deep_ensemble" =>
       \A i \in DOMAIN ens_saved :
         ens_saved[i].since = IF ens_saved[i].reinits > 0 THEN cycle_length
                              ELSE ens_saved[i].epoch + 1 - start_epoch

C10_Witness ==
  /\ ensemble_type = "deep_ensemble"
  /\ cycle_length >= 2
  /\ Len(ens_saved) >= 2
  /\ reinit_count >= 2
  /\ pc = "returned"

\* =========================================================== validate()
\* Numbers are exact rationals [num, den]; den = 0 is NaN.
MaxSamples == 3
MaxTasks == 2
MaxCells == 4
BatchSize == 2

Rat(n, d) == [num |-> n, den |-> d]
NaN == Rat(0, 0)
IsNaN(a) == a.den = 0
Zero == Rat(0, 1)
Half == Rat(1, 2)
\* IEEE comparison: a NaN equals nothing
RatEq(a, b) == ~IsNaN(a) /\ ~IsNaN(b) /\ a.num * b.den = b.num * a.den
RatLess(a, b) == ~IsNaN(a) /\ ~IsNaN(b) /\ a.num * b.den < b.num * a.den
RatAdd(a, b) == IF IsNaN(a) \/ IsNaN(b) THEN NaN
                ELSE Rat(a.num * b.den + b.num * a.den, a.den * b.den)
RatDivInt(a, n) == IF IsNaN(a) \/ n = 0 THEN NaN ELSE Rat(a.num, a.den * n)

\* Sample IDs are strings, here sequences of characters.
SampleIDs == { <<"B", "-", "A", "-", "A">>, <<"B", "-", "A", "-", "B">>,
               <<"B", "-", "B", "-", "A">>, <<"A">> }
\* sigmoid outputs, or NaN from a diverged network
Outputs == { Rat(1, 4), Rat(3, 4), NaN }
\* labels as the data set stores them
Labels == { -1, 0, 1 }

SampleSet(t) == [ID : SampleIDs, output : [1..t -> Outputs], target : [1..t -> Labels]]

\* line 204-205: np.zeros(shape=(n_samples, n_tasks))
Zeros(n, t) == [j \in 1..n |-> [c \in 1..t |-> Zero]]

\* line 232: target_tasks / 2 + 0.5
StoredTarget(label) == Rat(label + 1, 2)

\* the samples of batch i of a loader with drop_last=False (lines 45-48, 212)
BatchRows(i, b, n) == {j \in 1..n : i * b < j /\ j <= (i + 1) * b}
NumBatchesOf(n, b) == (n + b - 1) \div b

\* lines 231-232: array[i * batchsize:(i + 1) * batchsize, :] = rows, the slice
\* clipped to the array; rows[k] is the k-th row of the batch
SliceLow(i, b) == i * b
SliceAssign(array, i, b, rows) ==
  [j \in DOMAIN array |->
     IF SliceLow(i, b) < j /\ j <= SliceLow(i, b) + b /\ j - SliceLow(i, b) \in DOMAIN rows
       THEN rows[j - SliceLow(i, b)]
       ELSE array[j]]

\* ---- key.split("-")
RECURSIVE Split(_)
Split(s) ==
  IF \A i \in DOMAIN s : s[i] # "-"
    THEN <<s>>
    ELSE LET i == CHOOSE k \in DOMAIN s :
                    s[k] = "-" /\ \A l \in 1..(k - 1) : s[l] # "-"
         IN <<SubSeq(s, 1, i - 1)>> \o Split(SubSeq(s, i + 1, Len(s)))

\* ---- "-".join(tokens)
RECURSIVE Join(_)
Join(tokens) ==
  IF Len(tokens) = 0 THEN <<>>
  ELSE IF Len(tokens) = 1 THEN tokens[1]
  ELSE tokens[1] \o <<"-">> \o Join(Tail(tokens))

FirstTokenOnly(tokens) == SubSeq(tokens, 1, IF Len(tokens) < 1 THEN Len(tokens) ELSE 1)

\* tokens[0:2]
FirstTwo(tokens) == SubSeq(tokens, 1, IF Len(tokens) < 2 THEN Len(tokens) ELSE 2)

GroupKeyFirstToken(key) == Join(FirstTokenOnly(Split(key)))

\* lines 252, 256: lambda key: "-".join(key.split("-")[0:2])
GroupKey(key) == Join(FirstTwo(Split(key)))

\* ---- the order of strings: by code point, a proper prefix first
CharCode(c) == CASE c = "-" -> 45 [] c = "A" -> 65 [] c = "B" -> 66
StrLess(a, b) ==
  \E i \in 1..(Len(a) + 1) :
    /\ \A l \in 1..(i - 1) : l <= Len(b) /\ a[l] = b[l]
    /\ i <= Len(b)
    /\ i > Len(a) \/ CharCode(a[i]) < CharCode(b[i])

\* groupby(...) sorts the group keys; sort_index() keeps them sorted
RECURSIVE SortKeys(_)
SortKeys(S) ==
  IF S = {} THEN <<>>
  ELSE LET least == CHOOSE x \in S : \A y \in S \ {x} : StrLess(x, y)
       IN <<least>> \o SortKeys(S \ {least})

GroupKeys(keys) == SortKeys({GroupKey(keys[j]) : j \in DOMAIN keys})

\* the rows of a group, in the order of the frame
RECURSIVE RowsOf(_, _, _)
RowsOf(keys, k, j) ==
  IF j > Len(keys) THEN <<>>
  ELSE (IF GroupKey(keys[j]) = k THEN <<j>> ELSE <<>>) \o RowsOf(keys, k, j + 1)

RECURSIVE SumRat(_)
SumRat(xs) == IF Len(xs) = 0 THEN Zero ELSE RatAdd(xs[1], SumRat(Tail(xs)))

NotNaN(x) == ~IsNaN(x)

\* GroupBy.mean(): the mean of a column's values in the group, missing values
\* (NaN) left out; NaN when none is left
GroupMean(xs) ==
  LET present == SelectSeq(xs, NotNaN)
  IN IF Len(present) = 0 THEN NaN ELSE RatDivInt(SumRat(present), Len(present))

\* GroupBy.first(): the first value of the column in the group that is not missing
GroupFirst(xs) ==
  LET present == SelectSeq(xs, NotNaN)
  IN IF Len(present) = 0 THEN NaN ELSE present[1]

\* the values of column c in the rows of group k, in the order of the frame
GroupValues(array, keys, k, c) ==
  LET rows == RowsOf(keys, k, 1)
  IN [x \in DOMAIN rows |-> array[rows[x]][c]]

\* lines 251-253: df.groupby(by=...).mean().sort_index().values
GroupedMean(array, keys) ==
  LET gk == GroupKeys(keys)
  IN [r \in DOMAIN gk |->
        [c \in 1..n_tasks |-> GroupMean(GroupValues(array, keys, gk[r], c))]]

\* lines 255-257: df.groupby(by=...).first().sort_index().values
GroupedFirst(array, keys) ==
  LET gk == GroupKeys(keys)
  IN [r \in DOMAIN gk |->
        [c \in 1..n_tasks |-> GroupFirst(GroupValues(array, keys, gk[r], c))]]

\* ---- lines 268-272
Column(array, c) == [r \in DOMAIN array |-> array[r][c]]
AnyEqual(col, x) == \E r \in DOMAIN col : RatEq(col[r], x)
HasBothClasses(col) == AnyEqual(col, Zero) /\ AnyEqual(col, Rat(1, 1))
\* line 269: the rows whose target is 0, then those whose target is 1
Negatives(col) == {r \in DOMAIN col : RatEq(col[r], Zero)}
Positives(col) == {r \in DOMAIN col : RatEq(col[r], Rat(1, 1))}

\* sklearn's roc_auc_score raises ValueError when a score is NaN or y_true holds
\* a single class
RocAucRaises(tcol, pcol) ==
  \/ Negatives(tcol) = {} \/ Positives(tcol) = {}
  \/ \E r \in Negatives(tcol) \cup Positives(tcol) : IsNaN(pcol[r])

RECURSIVE PairScore(_, _)
\* twice the number of (positive, negative) pairs ranked right, ties counted half
PairScore(pairs, pcol) ==
  IF pairs = {} THEN 0
  ELSE LET pr == CHOOSE x \in pairs : TRUE
           s  == IF RatLess(pcol[pr[2]], pcol[pr[1]]) THEN 2
                 ELSE IF RatEq(pcol[pr[1]], pcol[pr[2]]) THEN 1 ELSE 0
       IN s + PairScore(pairs \ {pr}, pcol)

\* roc_auc_score: the area under the ROC curve of the selected rows
RocAucScore(tcol, pcol) ==
  Rat(PairScore(Positives(tcol) \X Negatives(tcol), pcol),
      2 * Cardinality(Positives(tcol)) * Cardinality(Negatives(tcol)))

DegenerateAucZero == Zero

\* line 272
DegenerateAuc == Half

\* line 277: float(np.mean(class_aucs))
Mean(xs) == RatDivInt(SumRat(xs), Len(xs))

\* ---- the state before validate() runs: a loader over a bounded data set
ValidateInit ==
  /\ v_pc = "load"
  /\ n_tasks \in 1..MaxTasks
  /\ \E n \in 1..MaxSamples :
       /\ n * n_tasks <= MaxCells
       /\ loader \in [1..n -> SampleSet(n_tasks)]
  /\ batchsize = BatchSize
  /\ batch = 0
  /\ predictions = Zeros(Len(loader), n_tasks)
  /\ targets = Zeros(Len(loader), n_tasks)
  /\ sample_keys = <<>>
  /\ ids = <<>>
  /\ class_aucs = <<>>
  /\ mean_auc = NaN

\* main() not running
MainIdle ==
  /\ ensemble_type = "none" /\ ensemble_size = 0 /\ cycle_length = 0 /\ initial_lr = 0
  /\ config_epochs = 0 /\ config_evaluate = FALSE /\ start_epoch = 0
  /\ restored_best = 0 /\ has_val = TRUE /\ pc = "validate"
  /\ total_epochs = Unbound /\ epoch = Unbound /\ m = Unbound
  /\ performance = Unbound /\ best_performance = 0
  /\ exc = "none" /\ exc_at = "none" /\ exc_epoch = Unbound
  /\ lr = 0 /\ batch_i = 0 /\ calls = <<>> /\ trained = <<>>
  /\ last_ckpt = NoCkpt /\ ens_saved = <<>> /\ ens_passed = {}
  /\ reinit_count = 0 /\ since_init = 0 /\ abort_saved = FALSE /\ closed = <<>>
  /\ max_seen = 0 /\ prev_max = 0

\* lines 212-232: one batch stored
StoreBatch ==
  /\ v_pc = "load"
  /\ batch < NumBatchesOf(Len(loader), batchsize)
  /\ LET rows == BatchRows(batch, batchsize, Len(loader))
         first == batch * batchsize
         pred_tasks == [k \in 1..Cardinality(rows) |-> loader[first + k].output]
         target_tasks == [k \in 1..Cardinality(rows) |->
                            [c \in 1..n_tasks |-> StoredTarget(loader[first + k].target[c])]]
         batch_ids == [k \in 1..Cardinality(rows) |-> loader[first + k].ID]
     IN /\ sample_keys' = sample_keys \o batch_ids
        /\ predictions' = SliceAssign(predictions, batch, batchsize, pred_tasks)
        /\ targets' = SliceAssign(targets, batch, batchsize, target_tasks)
  /\ batch' = batch + 1
  /\ v_pc' = IF batch + 1 < NumBatchesOf(Len(loader), batchsize) THEN "load" ELSE "group"
  /\ UNCHANGED <<loader, n_tasks, batchsize, ids, class_aucs, mean_auc, main_vars>>

\* lines 250-258
Aggregate ==
  /\ v_pc = "group"
  /\ predictions' = GroupedMean(predictions, sample_keys)
  /\ targets' = GroupedFirst(targets, sample_keys)
  /\ ids' = GroupKeys(sample_keys)
  /\ v_pc' = "auc"
  /\ UNCHANGED <<loader, n_tasks, batchsize, batch, sample_keys, class_aucs, mean_auc,
                 main_vars>>

\* lines 266-275: one class
ClassAuc ==
  /\ v_pc = "auc"
  /\ Len(class_aucs) < n_tasks
  /\ LET i == Len(class_aucs) + 1
         tcol == Column(targets, i)
         pcol == Column(predictions, i)
     IN \/ /\ HasBothClasses(tcol)
           /\ ~RocAucRaises(tcol, pcol)
           /\ class_aucs' = Append(class_aucs, RocAucScore(tcol, pcol))
        \/ /\ HasBothClasses(tcol)
           /\ RocAucRaises(tcol, pcol)
           /\ class_aucs' = Append(class_aucs, Half)
        \/ /\ ~HasBothClasses(tcol)
           /\ class_aucs' = Append(class_aucs, DegenerateAuc)
  /\ UNCHANGED <<v_pc, loader, n_tasks, batchsize, batch, predictions, targets,
                 sample_keys, ids, mean_auc, main_vars>>

\* lines 277, 290
ReturnMeanAuc ==
  /\ v_pc = "auc"
  /\ Len(class_aucs) = n_tasks
  /\ mean_auc' = Mean(class_aucs)
  /\ v_pc' = "done"
  /\ UNCHANGED <<loader, n_tasks, batchsize, batch, predictions, targets, sample_keys,
                 ids, class_aucs, main_vars>>

ValidateNext ==
  \/ StoreBatch
  \/ Aggregate
  \/ ClassAuc
  \/ ReturnMeanAuc

InitValidate == MainIdle /\ ValidateInit

SpecValidate == InitValidate /\ [][ValidateNext]_vars

\* -------------------------------------------- properties of validate()
\* the sum and the product of the values of f on S
RECURSIVE SumOver(_, _)
SumOver(f, S) ==
  IF S = {} THEN 0
  ELSE LET x == CHOOSE y \in S : TRUE IN f[x] + SumOver(f, S \ {x})

RECURSIVE ProdOver(_, _)
ProdOver(f, S) ==
  IF S = {} THEN 1
  ELSE LET x == CHOOSE y \in S : TRUE IN f[x] * ProdOver(f, S \ {x})

\* mean is the arithmetic mean of the rationals xs[i], i in S: the deviations
\* xs[i] - mean sum to zero
IsMeanOf(mean, xs, S) ==
  /\ S # {}
  /\ ~IsNaN(mean)
  /\ \A i \in S : ~IsNaN(xs[i])
  /\ LET den == [j \in S |-> xs[j].den]
         dev == [i \in S |-> (xs[i].num * mean.den - mean.num * xs[i].den)
                               * ProdOver(den, S \ {i})]
     IN SumOver(dev, S) = 0

IsZero(a) == ~IsNaN(a) /\ a.num = 0
IsOne(a) == ~IsNaN(a) /\ a.num = a.den

\* C5: every class whose column of the grouped targets lacks a 0 or lacks a 1
\* gets exactly 0.5, and so does a class for which roc_auc_score raises ValueError
\* (a NaN score among the rows selected); when validate() returns class_aucs has
\* n_tasks entries and the value returned is their arithmetic mean.
C5_DegenerateClassAucIsHalf ==
  /\ v_pc \in {"auc", "done"} =>
       \A i \in DOMAIN class_aucs :
         /\ ((\A r \in DOMAIN targets : ~IsZero(targets[r][i]))
               \/ (\A r \in DOMAIN targets : ~IsOne(targets[r][i])))
              => class_aucs[i] = Rat(1, 2)
         /\ (\E r \in DOMAIN targets :
               /\ IsZero(targets[r][i]) \/ IsOne(targets[r][i])
               /\ IsNaN(predictions[r][i]))
              => class_aucs[i] = Rat(1, 2)
  /\ v_pc = "done" =>
       /\ Len(class_aucs) = n_tasks
       /\ IsMeanOf(mean_auc, class_aucs, 1..n_tasks)

C5_Witness ==
  /\ v_pc = "done"
  /\ n_tasks = 2
  /\ Len(targets) = 2
  /\ \A r \in DOMAIN targets : IsOne(targets[r][1])
  /\ class_aucs[1] = Rat(1, 2)
  /\ IsOne(class_aucs[2])
  /\ mean_auc.num * 4 = mean_auc.den * 3

\* the key up to its second "-", the whole key if it has fewer than two
KeyPrefix(key) ==
  LET dashes == {i \in DOMAIN key : key[i] = "-"}
  IN IF Cardinality(dashes) < 2 THEN key
     ELSE LET second == CHOOSE i \in dashes :
                          Cardinality({k \in dashes : k < i}) = 1
          IN SubSeq(key, 1, second - 1)

Members(prefix) == {j \in DOMAIN loader : KeyPrefix(loader[j].ID) = prefix}
FirstMember(prefix) == CHOOSE j \in Members(prefix) : \A k \in Members(prefix) : j <= k

\* the arrays before the aggregation: row j is the j-th sample of the loader
RowsInLoaderOrder ==
  v_pc = "group" =>
    /\ Len(sample_keys) = Len(loader)
    /\ Len(predictions) = Len(loader)
    /\ Len(targets) = Len(loader)
    /\ \A j \in DOMAIN loader :
         /\ sample_keys[j] = loader[j].ID
         /\ predictions[j] = loader[j].output
         /\ \A c \in 1..n_tasks :
              targets[j][c].num * 2 = (loader[j].target[c] + 1) * targets[j][c].den

\* the aggregated arrays: one row per prefix, sorted, aligned, first target
GroupedRowsAligned ==
  v_pc \in {"auc", "done"} =>
    /\ Len(ids) = Cardinality({KeyPrefix(loader[j].ID) : j \in DOMAIN loader})
    /\ Len(predictions) = Len(ids)
    /\ Len(targets) = Len(ids)
    /\ \A r \in DOMAIN ids :
         /\ Members(ids[r]) # {}
         /\ \A q \in DOMAIN ids : r < q => StrLess(ids[r], ids[q])
         /\ \A c \in 1..n_tasks :
              LET t == targets[r][c]
                  label == loader[FirstMember(ids[r])].target[c]
              IN ~IsNaN(t) /\ t.num * 2 = (label + 1) * t.den

Output(c) == [j \in DOMAIN loader |-> loader[j].output[c]]

\* C6 as stated: each row's prediction is the mean of the predictions of all
\* samples with the row's prefix (a NaN among them making it NaN).
C6_PredictionIsMeanOfAllSamples ==
  /\ RowsInLoaderOrder
  /\ GroupedRowsAligned
  /\ v_pc \in {"auc", "done"} =>
       \A r \in DOMAIN ids : \A c \in 1..n_tasks :
         IF \E j \in Members(ids[r]) : IsNaN(loader[j].output[c])
           THEN IsNaN(predictions[r][c])
           ELSE IsMeanOf(predictions[r][c], Output(c), Members(ids[r]))

\* C6 amended: validate() yields one row per distinct key prefix (the first two
\* dash-separated tokens of the sample ID), sorted by prefix, row-aligned in
\* predictions, targets and ids; a row's target is that of the first sample with
\* the prefix in loader order; its prediction in each class is the mean of the
\* predictions that are not NaN among the samples with the prefix, NaN if all
\* are; before the aggregation row j holds the j-th sample of the loader.
C6_PredictionIsMeanOfPresentSamples ==
  /\ RowsInLoaderOrder
  /\ GroupedRowsAligned
  /\ v_pc \in {"auc", "done"} =>
       \A r \in DOMAIN ids : \A c \in 1..n_tasks :
         LET present == {j \in Members(ids[r]) : ~IsNaN(loader[j].output[c])}
         IN IF present = {}
              THEN IsNaN(predictions[r][c])
              ELSE IsMeanOf(predictions[r][c], Output(c), present)

C6_Witness ==
  /\ v_pc = "auc"
  /\ batch = 2
  /\ Len(loader) = 3
  /\ loader[1].ID = <<"B", "-", "B", "-", "A">>
  /\ loader[2].ID = <<"B", "-", "A", "-", "A">>
  /\ loader[3].ID = <<"B", "-", "A", "-", "B">>
  /\ loader[2].target[1] = 1 /\ loader[3].target[1] = -1
  /\ loader[2].output[1] = Rat(1, 4) /\ loader[3].output[1] = Rat(3, 4)
  /\ Len(ids) = 2
  /\ ids[1] = <<"B", "-", "A">>
  /\ IsOne(targets[1][1])
  /\ RatEq(predictions[1][1], Rat(1, 2))

====
